---- MODULE Spec2Model ----
(***************************************************************************)
(* Model of the example callbacks of examples/mnist_gans,                  *)
(* examples/mnist_advanced_gans and examples/autoencoders.                 *)
(*                                                                         *)
(* The callbacks are hooks that the runner calls with a shared state       *)
(* object.  Each group of callbacks has a specification of its own         *)
(* (SpecOpt, SpecMetric, SpecCrit, SpecAgg, SpecViz, SpecLogger, SpecPrep) *)
(* over the same variables; the variables of the other groups stay at      *)
(* their idle values.                                                      *)
(*                                                                         *)
(* Tensors are sequences of integers (records of a shape and the entries   *)
(* where the shape matters); a real number that the code obtains by        *)
(* division is the record [num, den] of its numerator and denominator.     *)
(***************************************************************************)
EXTENDS Integers, Sequences, FiniteSets, TLC

VARIABLES
    \* ---- OptimizerCallback descendants (weight clamping) ----
    callback_class,        \* class of the optimizer callback instance
    accumulation_steps,    \* self.accumulation_steps
    weight_clamp_value,    \* self.weight_clamp_value
    accumulation_counter,  \* self._accumulation_counter
    param_groups,          \* optimizer.param_groups: groups of param.data
    need_backward,         \* state.need_backward of the latest batch
    batch_ended,           \* on_batch_end has run at least once
    stepped,               \* the parent handler did its gradient step in the latest batch
    clamped,               \* the clamping loop ran in the latest batch
    stepped_params,        \* param_groups as the parent handler left them in the latest batch
    \* ---- MultiKeyMetricCallback / WassersteinDistanceCallback ----
    metric_self,           \* the metric callback instance (its fields)
    state_metrics,         \* state.metrics: the batch values added, in order
    \* ---- CriterionWithDiscriminatorCallback ----
    crit_self,             \* the criterion callback instance (its fields)
    state_model,           \* state.model: dictionary key -> model
    criterion_call,        \* arguments of the latest call of the criterion (<<>> when none)
    \* ---- WeightedCriterionAggregatorCallback ----
    agg_args,              \* arguments given to the constructor
    agg_pc,                \* "new", then "constructed" or "failed"
    agg_self,              \* the aggregator instance (<<>> when there is none)
    agg_loss,              \* the loss dictionary of the latest _preprocess_loss (<<>> when none)
    agg_losses,            \* the list returned by the latest _preprocess_loss
    \* ---- VisualizationCallback ----
    viz_args,              \* arguments given to the constructor, and the module of the class
    viz_pc,                \* "new", then "constructed" or "failed"
    viz_self,              \* the visualization callback instance (<<>> when there is none)
    logger_module,         \* module of the class whose _get_tensorboard_logger is called
    logger_pc,             \* "new", then "returned" or "failed"
    state_loggers,         \* state.loggers: the loggers of the run, in order
    state_loader_name,     \* state.loader_name
    tb_logger,             \* the writer _get_tensorboard_logger returned (<<>> when none)
    \* ---- PrepareBatchInputCallback descendants ----
    prep_args,             \* arguments given to the constructor
    prep_self,             \* the batch-preparation callback instance (its fields)
    prep_calls,            \* number of on_batch_start calls made
    \* ---- the runner state and the outcome of a call ----
    state_input,           \* state.input: dictionary key -> tensor
    state_output,          \* state.output: dictionary key -> tensor
    raised                 \* exception raised by the latest call ("" when none)

optVars == <<callback_class, accumulation_steps, weight_clamp_value,
             accumulation_counter, param_groups, need_backward, batch_ended,
             stepped, clamped, stepped_params>>

metricVars == <<metric_self, state_metrics>>

critVars == <<crit_self, state_model, criterion_call>>

aggVars == <<agg_args, agg_pc, agg_self, agg_loss, agg_losses>>

vizVars == <<viz_args, viz_pc, viz_self>>

loggerVars == <<logger_module, logger_pc, state_loggers, state_loader_name, tb_logger>>

prepVars == <<prep_args, prep_self, prep_calls>>

stateVars == <<state_input, state_output, raised>>

vars == <<optVars, metricVars, critVars, aggVars, vizVars, loggerVars, prepVars, stateVars>>

(***************************************************************************)
(* Bounds of the model.                                                    *)
(***************************************************************************)
MaxWeight == 2
MaxAccumulationSteps == 2
MaxBatches == 3
MaxClampValue == 1

Weights == (-MaxWeight)..MaxWeight
\* the optimizer has two param groups, of two parameters and of one
ParamGroups ==
    {<<<<a, b>>, <<c>>>> : a \in Weights, b \in Weights, c \in Weights}

(***************************************************************************)
(* Idle values of each group of variables, for the specifications of the   *)
(* other groups.                                                           *)
(***************************************************************************)
IdleOpt ==
    /\ callback_class = "" /\ accumulation_steps = 1 /\ weight_clamp_value = 0
    /\ accumulation_counter = 0 /\ param_groups = <<>> /\ need_backward = FALSE
    /\ batch_ended = FALSE /\ stepped = FALSE /\ clamped = FALSE
    /\ stepped_params = <<>>

IdleMetric == metric_self = <<>> /\ state_metrics = <<>>

IdleCrit == crit_self = <<>> /\ state_model = <<>> /\ criterion_call = <<>>

IdleAgg ==
    /\ agg_args = <<>> /\ agg_pc = "" /\ agg_self = <<>>
    /\ agg_loss = <<>> /\ agg_losses = <<>>

IdleViz == viz_args = <<>> /\ viz_pc = "" /\ viz_self = <<>>

IdleLogger ==
    /\ logger_module = "" /\ logger_pc = "" /\ state_loggers = <<>>
    /\ state_loader_name = "" /\ tb_logger = <<>>

IdlePrep == prep_args = <<>> /\ prep_self = <<>> /\ prep_calls = 0

IdleState == state_input = <<>> /\ state_output = <<>> /\ raised = ""

exceptOpt == <<metricVars, critVars, aggVars, vizVars, loggerVars, prepVars, stateVars>>
IdleExceptOpt ==
    /\ IdleMetric /\ IdleCrit /\ IdleAgg /\ IdleViz /\ IdleLogger /\ IdlePrep
    /\ IdleState

exceptMetric == <<optVars, critVars, aggVars, vizVars, loggerVars, prepVars>>
IdleExceptMetric ==
    IdleOpt /\ IdleCrit /\ IdleAgg /\ IdleViz /\ IdleLogger /\ IdlePrep

exceptCrit == <<optVars, metricVars, aggVars, vizVars, loggerVars, prepVars>>
IdleExceptCrit ==
    IdleOpt /\ IdleMetric /\ IdleAgg /\ IdleViz /\ IdleLogger /\ IdlePrep

IdleBatch == state_input = <<>> /\ state_output = <<>>

exceptAgg == <<optVars, metricVars, critVars, vizVars, loggerVars, prepVars, state_input, state_output>>
IdleExceptAgg ==
    /\ IdleOpt /\ IdleMetric /\ IdleCrit /\ IdleViz /\ IdleLogger /\ IdlePrep
    /\ IdleBatch

exceptViz == <<optVars, metricVars, critVars, aggVars, loggerVars, prepVars, state_input, state_output>>
IdleExceptViz ==
    /\ IdleOpt /\ IdleMetric /\ IdleCrit /\ IdleAgg /\ IdleLogger /\ IdlePrep
    /\ IdleBatch

exceptPrep == <<optVars, metricVars, critVars, aggVars, vizVars, loggerVars, state_output>>
IdleExceptPrep ==
    /\ IdleOpt /\ IdleMetric /\ IdleCrit /\ IdleAgg /\ IdleViz /\ IdleLogger
    /\ state_output = <<>>

exceptLogger == <<optVars, metricVars, critVars, aggVars, vizVars, prepVars, state_input, state_output>>
IdleExceptLogger ==
    /\ IdleOpt /\ IdleMetric /\ IdleCrit /\ IdleAgg /\ IdleViz /\ IdlePrep
    /\ IdleBatch

(***************************************************************************)
(* torch.Tensor.clamp_(min, max), elementwise on one value.                *)
(***************************************************************************)
clamp_lower_only(x, min, max) == IF x < min THEN min ELSE x

clamp_(x, min, max) == IF x < min THEN min ELSE IF x > max THEN max ELSE x

(***************************************************************************)
(* need_gradient_step of the clamping callbacks:                           *)
(*   self._accumulation_counter % self.accumulation_steps == 0             *)
(***************************************************************************)
need_gradient_step_always(counter, steps) == TRUE

need_gradient_step(counter, steps) == counter % steps = 0

(***************************************************************************)
(* The nested loop over optimizer.param_groups and group["params"].        *)
(***************************************************************************)
clamp_param_groups(groups, value) ==
    [g \in DOMAIN groups |->
        [p \in DOMAIN groups[g] |-> clamp_(groups[g][p], -value, value)]]

(***************************************************************************)
(* OptimizerCallback.on_batch_end, the parent handler: when the state      *)
(* needs a backward pass it counts the batch and, every                    *)
(* accumulation_steps batches, finishes an optimizer step, which may move  *)
(* every parameter anywhere.                                               *)
(***************************************************************************)
OptimizerCallback_counter(nb) ==
    IF nb THEN accumulation_counter + 1 ELSE accumulation_counter

OptimizerCallback_grad_step(nb) ==
    nb /\ OptimizerCallback_counter(nb) % accumulation_steps = 0

\* the values of optimizer.param_groups the parent handler can leave behind
OptimizerCallback_on_batch_end(nb) ==
    IF OptimizerCallback_grad_step(nb) THEN ParamGroups ELSE {param_groups}

(***************************************************************************)
(* on_batch_end of the two clamping callbacks: the parent handler, the     *)
(* early return when the state needs no backward pass, and the clamping    *)
(* loop guarded by need_gradient_step.  nb is state.need_backward.         *)
(***************************************************************************)
WeightClampingOptimizerCallback_on_batch_end ==
    /\ callback_class = "WeightClampingOptimizerCallback"
    /\ accumulation_counter < MaxBatches
    /\ \E nb \in BOOLEAN :
       \E groups2 \in OptimizerCallback_on_batch_end(nb) :
          /\ accumulation_counter' = OptimizerCallback_counter(nb)
          /\ need_backward' = nb
          /\ batch_ended' = TRUE
          /\ stepped' = OptimizerCallback_grad_step(nb)
          /\ stepped_params' = groups2
          /\ IF ~nb
             THEN /\ clamped' = FALSE
                  /\ param_groups' = groups2
             ELSE IF need_gradient_step(accumulation_counter', accumulation_steps)
                  THEN /\ clamped' = TRUE
                       /\ param_groups' = clamp_param_groups(groups2, weight_clamp_value)
                  ELSE /\ clamped' = FALSE
                       /\ param_groups' = groups2
    /\ UNCHANGED <<callback_class, accumulation_steps, weight_clamp_value>>
    /\ UNCHANGED exceptOpt

LipzOptimizerCallback_on_batch_end ==
    /\ callback_class = "LipzOptimizerCallback"
    /\ accumulation_counter < MaxBatches
    /\ \E nb \in BOOLEAN :
       \E groups2 \in OptimizerCallback_on_batch_end(nb) :
          /\ accumulation_counter' = OptimizerCallback_counter(nb)
          /\ need_backward' = nb
          /\ batch_ended' = TRUE
          /\ stepped' = OptimizerCallback_grad_step(nb)
          /\ stepped_params' = groups2
          /\ IF ~nb
             THEN /\ clamped' = FALSE
                  /\ param_groups' = groups2
             ELSE IF need_gradient_step(accumulation_counter', accumulation_steps)
                  THEN /\ clamped' = TRUE
                       /\ param_groups' = clamp_param_groups(groups2, weight_clamp_value)
                  ELSE /\ clamped' = FALSE
                       /\ param_groups' = groups2
    /\ UNCHANGED <<callback_class, accumulation_steps, weight_clamp_value>>
    /\ UNCHANGED exceptOpt

InitOpt ==
    /\ callback_class \in {"WeightClampingOptimizerCallback", "LipzOptimizerCallback"}
    /\ accumulation_steps \in 1..MaxAccumulationSteps
    /\ weight_clamp_value \in 0..MaxClampValue
    /\ accumulation_counter = 0
    /\ param_groups \in ParamGroups
    /\ need_backward = FALSE
    /\ batch_ended = FALSE
    /\ stepped = FALSE
    /\ clamped = FALSE
    /\ stepped_params = param_groups
    /\ IdleExceptOpt

NextOpt ==
    \/ WeightClampingOptimizerCallback_on_batch_end
    \/ LipzOptimizerCallback_on_batch_end

SpecOpt == InitOpt /\ [][NextOpt]_vars

(***************************************************************************)
(* Claims about the clamping callbacks.                                    *)
(***************************************************************************)
InClampRange(x) == -weight_clamp_value <= x /\ x <= weight_clamp_value

\* C1: after an on_batch_end with state.need_backward true in which an
\* optimizer step was finished (the counter is a multiple of
\* accumulation_steps after the parent handler), every parameter of every
\* param group lies in [-weight_clamp_value, +weight_clamp_value], and a
\* parameter the step left inside that interval keeps its value.
C1_ClampedAfterStep ==
    (batch_ended /\ need_backward
        /\ accumulation_counter % accumulation_steps = 0)
    => \A g \in DOMAIN param_groups : \A p \in DOMAIN param_groups[g] :
          /\ InClampRange(param_groups[g][p])
          /\ InClampRange(stepped_params[g][p])
                => param_groups[g][p] = stepped_params[g][p]

\* a step was finished that left one parameter above the range, one below
\* it and one inside it
C1_Witness ==
    /\ batch_ended /\ need_backward /\ stepped
    /\ accumulation_counter % accumulation_steps = 0
    /\ weight_clamp_value > 0
    /\ stepped_params[1][1] = 0
    /\ stepped_params[1][2] > weight_clamp_value
    /\ stepped_params[2][1] < -weight_clamp_value

MaxBatchSize == 2
MaxCalls == 2

TensorValues == {-1, 2}
Tensors(B) == [1..B -> TensorValues]

OutputKeys == {"real_validity", "fake_validity"}
InputKeys == {"targets"}
Dictionaries(Keys, B) == UNION {[K -> Tensors(B)] : K \in SUBSET Keys}

KeysNone == [kind |-> "None"]
KeysStr(k) == [kind |-> "str", key |-> k]
KeysList(ks) == [kind |-> "list", keys |-> ks]
Elems(seq) == {seq[i] : i \in DOMAIN seq}

\* MultiKeyMetricCallback._get: the lookups that raise KeyError
_get_raises(dictionary, keys) ==
    CASE keys.kind = "None" -> FALSE
      [] keys.kind = "list" -> \E k \in Elems(keys.keys) : k \notin DOMAIN dictionary
      [] OTHER -> keys.key \notin DOMAIN dictionary

_get_whole_dictionary(dictionary, keys) == [kind |-> "dict", d |-> dictionary]

\* MultiKeyMetricCallback._get
_get(dictionary, keys) ==
    CASE keys.kind = "None" -> [kind |-> "dict", d |-> dictionary]
      [] keys.kind = "list" ->
            [kind |-> "dict", d |-> [key \in Elems(keys.keys) |-> dictionary[key]]]
      [] OTHER -> [kind |-> "tensor", t |-> dictionary[keys.key]]

\* torch.Tensor.sum and torch.Tensor.mean: the mean is the pair sum / length
RECURSIVE tensor_sum(_)
tensor_sum(t) == IF t = <<>> THEN 0 ELSE t[1] + tensor_sum(Tail(t))

tensor_mean(t) == [num |-> tensor_sum(t), den |-> Len(t)]

\* a - b on such pairs
rational_sub(a, b) == [num |-> a.num * b.den - b.num * a.den, den |-> a.den * b.den]

get_wasserstein_distance_swapped(self, outputs, targets) ==
    rational_sub(tensor_mean(outputs.d[self.fake_validity_key]),
                 tensor_mean(outputs.d[self.real_validity_key]))

\* WassersteinDistanceCallback.get_wasserstein_distance
get_wasserstein_distance(self, outputs, targets) ==
    rational_sub(tensor_mean(outputs.d[self.real_validity_key]),
                 tensor_mean(outputs.d[self.fake_validity_key]))

\* self.metric_fn(outputs, targets, **self.metric_params): either the bound
\* method of WassersteinDistanceCallback or a function given by the caller,
\* whose result is the application itself
metric_fn_call(self, outputs, targets) ==
    IF self.metric_fn = "get_wasserstein_distance"
    THEN get_wasserstein_distance(self, outputs, targets)
    ELSE [fn |-> self.metric_fn, outputs |-> outputs, targets |-> targets,
          params |-> self.metric_params]

\* MultiKeyMetricCallback.__init__
MultiKeyMetricCallback_init(module, prefix, metric_fn, input_key, output_key, metric_params) ==
    [module |-> module, class |-> "MultiKeyMetricCallback",
     prefix |-> prefix, metric_fn |-> metric_fn,
     input_key |-> input_key, output_key |-> output_key,
     metric_params |-> metric_params]

\* WassersteinDistanceCallback.__init__
WassersteinDistanceCallback_init(module, prefix, real_validity_output_key, fake_validity_output_key) ==
    [module |-> module, class |-> "WassersteinDistanceCallback",
     prefix |-> prefix, metric_fn |-> "get_wasserstein_distance",
     input_key |-> KeysNone,
     output_key |-> KeysList(<<real_validity_output_key, fake_validity_output_key>>),
     metric_params |-> <<>>,
     real_validity_key |-> real_validity_output_key,
     fake_validity_key |-> fake_validity_output_key]

MetricKeyArguments(Keys) ==
    {KeysNone} \cup {KeysStr(k) : k \in Keys}
        \cup {KeysList(<<k>>) : k \in Keys}
        \cup {KeysList(<<k1, k2>>) : k1 \in Keys, k2 \in Keys}

MetricCallbacks ==
    {MultiKeyMetricCallback_init(m, "metric", "metric_fn", ik, ok, mp) :
        m \in {"mnist_gans", "mnist_advanced_gans"},
        ik \in MetricKeyArguments(InputKeys),
        ok \in MetricKeyArguments(OutputKeys),
        mp \in {<<>>, [topk |-> 1]}}
    \cup
    {WassersteinDistanceCallback_init(m, "wasserstein_distance", rk, fk) :
        m \in {"mnist_gans", "mnist_advanced_gans"},
        rk \in OutputKeys, fk \in OutputKeys}

\* MultiKeyMetricCallback.on_batch_end, examples/mnist_gans
MultiKeyMetricCallback_on_batch_end ==
    /\ metric_self.module = "mnist_gans"
    /\ Len(state_metrics) < MaxCalls
    /\ IF _get_raises(state_output, metric_self.output_key)
          \/ _get_raises(state_input, metric_self.input_key)
       THEN /\ raised' = "KeyError"
            /\ UNCHANGED state_metrics
       ELSE LET outputs == _get(state_output, metric_self.output_key)
                targets == _get(state_input, metric_self.input_key)
                metric == metric_fn_call(metric_self, outputs, targets)
            IN  /\ state_metrics' =
                      Append(state_metrics, [name |-> metric_self.prefix, value |-> metric])
                /\ raised' = ""
    /\ UNCHANGED <<metric_self, state_input, state_output>>
    /\ UNCHANGED exceptMetric

\* MultiKeyMetricCallback.on_batch_end, examples/mnist_advanced_gans
Advanced_MultiKeyMetricCallback_on_batch_end ==
    /\ metric_self.module = "mnist_advanced_gans"
    /\ Len(state_metrics) < MaxCalls
    /\ IF _get_raises(state_output, metric_self.output_key)
          \/ _get_raises(state_input, metric_self.input_key)
       THEN /\ raised' = "KeyError"
            /\ UNCHANGED state_metrics
       ELSE LET outputs == _get(state_output, metric_self.output_key)
                targets == _get(state_input, metric_self.input_key)
                metric == metric_fn_call(metric_self, outputs, targets)
            IN  /\ state_metrics' =
                      Append(state_metrics, [name |-> metric_self.prefix, value |-> metric])
                /\ raised' = ""
    /\ UNCHANGED <<metric_self, state_input, state_output>>
    /\ UNCHANGED exceptMetric

InitMetric ==
    /\ metric_self \in MetricCallbacks
    /\ \E B \in 1..MaxBatchSize :
          /\ state_input \in Dictionaries(InputKeys, B)
          /\ state_output \in Dictionaries(OutputKeys, B)
    /\ state_metrics = <<>>
    /\ raised = ""
    /\ IdleExceptMetric

NextMetric ==
    \/ MultiKeyMetricCallback_on_batch_end
    \/ Advanced_MultiKeyMetricCallback_on_batch_end

SpecMetric == InitMetric /\ [][NextMetric]_vars

(***************************************************************************)
(* Claims about the metric callbacks.                                      *)
(***************************************************************************)
\* what the claim says _get returns: the whole dictionary for None, a
\* dictionary of exactly the listed keys with their values for a list, the
\* single value otherwise
IsGetResult(result, dictionary, keys) ==
    CASE keys.kind = "None" ->
            result.kind = "dict" /\ result.d = dictionary
      [] keys.kind = "list" ->
            /\ result.kind = "dict"
            /\ DOMAIN result.d = Elems(keys.keys)
            /\ \A k \in Elems(keys.keys) : result.d[k] = dictionary[k]
      [] OTHER ->
            result.kind = "tensor" /\ result.t = dictionary[keys.key]

\* C4: an on_batch_end call that returns adds exactly one batch value to
\* state.metrics, under the name prefix; for a metric function given by the
\* caller the value is metric_fn(_get(state.output, output_key),
\* _get(state.input, input_key), **metric_params); state.input and
\* state.output are left unchanged.
C4_SingleMetric ==
    [][ /\ state_input' = state_input
        /\ state_output' = state_output
        /\ IF raised' # ""
           THEN state_metrics' = state_metrics
           ELSE /\ Len(state_metrics') = Len(state_metrics) + 1
                /\ SubSeq(state_metrics', 1, Len(state_metrics)) = state_metrics
                /\ LET added == state_metrics'[Len(state_metrics')]
                   IN  /\ added.name = metric_self.prefix
                       /\ metric_self.class = "MultiKeyMetricCallback" =>
                            /\ added.value.fn = metric_self.metric_fn
                            /\ IsGetResult(added.value.outputs, state_output,
                                           metric_self.output_key)
                            /\ IsGetResult(added.value.targets, state_input,
                                           metric_self.input_key)
                            /\ added.value.params = metric_self.metric_params
      ]_vars

\* a value was added whose outputs are one entry out of two of state.output
\* and whose targets are a single tensor
C4_Witness ==
    /\ metric_self # <<>>
    /\ metric_self.class = "MultiKeyMetricCallback"
    /\ Len(state_metrics) = 2
    /\ metric_self.output_key.kind = "list"
    /\ Len(metric_self.output_key.keys) = 1
    /\ DOMAIN state_output = OutputKeys
    /\ metric_self.input_key.kind = "str"
    /\ metric_self.metric_params # <<>>

WassersteinRecorded ==
    /\ metric_self # <<>>
    /\ metric_self.class = "WassersteinDistanceCallback"
    /\ state_metrics # <<>>

SwappedOutput ==
    [k \in DOMAIN state_output |->
        IF k = metric_self.real_validity_key
        THEN state_output[metric_self.fake_validity_key]
        ELSE IF k = metric_self.fake_validity_key
             THEN state_output[metric_self.real_validity_key]
             ELSE state_output[k]]

\* C5: the value WassersteinDistanceCallback records under its prefix is
\* mean(state.output[real_validity_output_key]) -
\* mean(state.output[fake_validity_output_key]); it is the same for every
\* state.input, and with the two validity tensors swapped it is negated.
C5_WassersteinDistance ==
    WassersteinRecorded =>
        LET added == state_metrics[Len(state_metrics)]
            v == added.value
            real == state_output[metric_self.real_validity_key]
            fake == state_output[metric_self.fake_validity_key]
            swapped == metric_fn_call(metric_self,
                           _get(SwappedOutput, metric_self.output_key),
                           _get(state_input, metric_self.input_key))
        IN  /\ added.name = metric_self.prefix
            /\ v.den # 0
            /\ v.num * (Len(real) * Len(fake)) =
                  v.den * (tensor_sum(real) * Len(fake) - tensor_sum(fake) * Len(real))
            /\ \A B \in 1..MaxBatchSize : \A input \in Dictionaries(InputKeys, B) :
                  metric_fn_call(metric_self,
                      _get(state_output, metric_self.output_key),
                      _get(input, metric_self.input_key)) = v
            /\ swapped.num * v.den = -(v.num * swapped.den)

\* a distance was recorded for validity tensors with different means
C5_Witness ==
    /\ WassersteinRecorded
    /\ metric_self.real_validity_key # metric_self.fake_validity_key
    /\ state_metrics[1].value.num > 0
    /\ Len(state_output[metric_self.real_validity_key]) = 2
    /\ DOMAIN state_input # {}

(***************************************************************************)
(* CriterionWithDiscriminatorCallback.                                     *)
(*                                                                         *)
(* examples/mnist_advanced_gans computes the loss itself, in               *)
(* CriterionWithAdditionalArgsCallback._compute_loss.  examples/mnist_gans *)
(* only overrides _get_additional_criterion_args and leaves the call of    *)
(* the criterion to CriterionCallback, which its docstring describes.      *)
(***************************************************************************)
ModelKeys == {"generator", "discriminator", "critic"}
\* state.model: each key holds a different model object
StateModels ==
    {[k \in K |-> <<"nn.Module", k>>] :
        K \in {{"generator"}, {"generator", "discriminator"}, ModelKeys}}

\* CriterionCallback._get: the lookups that raise KeyError
CriterionCallback_get_raises(dictionary, keys) ==
    IF keys.kind = "str"
    THEN keys.key \notin DOMAIN dictionary
    ELSE \E k \in Elems(keys.keys) : k \notin DOMAIN dictionary

\* CriterionCallback._get
CriterionCallback_get(dictionary, keys) ==
    IF keys.kind = "str"
    THEN [kind |-> "tensor", t |-> dictionary[keys.key]]
    ELSE [kind |-> "dict", d |-> [key \in Elems(keys.keys) |-> dictionary[key]]]

\* CriterionWithDiscriminatorCallback.__init__ (both modules)
CriterionWithDiscriminatorCallback_init(module, input_key, output_key, discriminator_model_key, discriminator_model_criterion_key) ==
    [module |-> module, input_key |-> input_key, output_key |-> output_key,
     discriminator_model_key |-> discriminator_model_key,
     discriminator_model_criterion_key |-> discriminator_model_criterion_key]

no_additional_criterion_args(self, model) == <<>>

\* CriterionWithDiscriminatorCallback._get_additional_criterion_args, examples/mnist_gans
_get_additional_criterion_args(self, model) ==
    [k \in {self.discriminator_model_criterion_key} |->
        model[self.discriminator_model_key]]

\* CriterionWithDiscriminatorCallback._get_additional_criterion_args,
\* examples/mnist_advanced_gans
Advanced_get_additional_criterion_args(self, model) ==
    [k \in {self.discriminator_model_criterion_key} |->
        model[self.discriminator_model_key]]

\* CriterionCallback._compute_loss as used by examples/mnist_gans: the
\* criterion is called with the additional arguments of the callback
CriterionCallback_compute_loss ==
    /\ crit_self.module = "mnist_gans"
    /\ IF \/ CriterionCallback_get_raises(state_output, crit_self.output_key)
          \/ CriterionCallback_get_raises(state_input, crit_self.input_key)
          \/ crit_self.discriminator_model_key \notin DOMAIN state_model
       THEN /\ raised' = "KeyError"
            /\ UNCHANGED criterion_call
       ELSE /\ criterion_call' =
                 [output |-> CriterionCallback_get(state_output, crit_self.output_key),
                  input |-> CriterionCallback_get(state_input, crit_self.input_key),
                  kwargs |-> _get_additional_criterion_args(crit_self, state_model)]
            /\ raised' = ""
    /\ UNCHANGED <<crit_self, state_model, state_input, state_output>>
    /\ UNCHANGED exceptCrit

\* CriterionWithAdditionalArgsCallback._compute_loss, examples/mnist_advanced_gans
CriterionWithAdditionalArgsCallback_compute_loss ==
    /\ crit_self.module = "mnist_advanced_gans"
    /\ IF \/ CriterionCallback_get_raises(state_output, crit_self.output_key)
          \/ CriterionCallback_get_raises(state_input, crit_self.input_key)
          \/ crit_self.discriminator_model_key \notin DOMAIN state_model
       THEN /\ raised' = "KeyError"
            /\ UNCHANGED criterion_call
       ELSE LET output == CriterionCallback_get(state_output, crit_self.output_key)
                input == CriterionCallback_get(state_input, crit_self.input_key)
                kwargs == Advanced_get_additional_criterion_args(crit_self, state_model)
            IN  /\ criterion_call' = [output |-> output, input |-> input, kwargs |-> kwargs]
                /\ raised' = ""
    /\ UNCHANGED <<crit_self, state_model, state_input, state_output>>
    /\ UNCHANGED exceptCrit

CriterionKeyArguments(Keys) ==
    {KeysStr(k) : k \in Keys} \cup {KeysList(<<k1, k2>>) : k1 \in Keys, k2 \in Keys}

CriterionCallbacks ==
    {CriterionWithDiscriminatorCallback_init(m, ik, ok, dk, ck) :
        m \in {"mnist_gans", "mnist_advanced_gans"},
        ik \in CriterionKeyArguments(InputKeys),
        ok \in CriterionKeyArguments(OutputKeys),
        dk \in {"discriminator", "critic"},
        ck \in {"discriminator", "d_model"}}

InitCrit ==
    /\ crit_self \in CriterionCallbacks
    /\ state_model \in StateModels
    /\ criterion_call = <<>>
    /\ \E B \in 1..MaxBatchSize :
          /\ state_input \in Dictionaries(InputKeys, B)
          /\ state_output \in Dictionaries(OutputKeys, B)
    /\ raised = ""
    /\ IdleExceptCrit

NextCrit ==
    \/ CriterionCallback_compute_loss
    \/ CriterionWithAdditionalArgsCallback_compute_loss

SpecCrit == InitCrit /\ [][NextCrit]_vars

MaxLossKeys == 2
MaxLossWeight == 2

PyNone == [kind |-> "None"]
PyList(xs) == [kind |-> "list", items |-> xs]

Number(n) == [num |-> n, den |-> 1]
number_add(a, b) == [num |-> a.num * b.den + b.num * a.den, den |-> a.den * b.den]
number_mul(a, b) == [num |-> a.num * b.num, den |-> a.den * b.den]
number_div(a, b) == [num |-> a.num * b.den, den |-> a.den * b.num]
number_eq(a, b) == a.num * b.den = b.num * a.den

\* the builtin sum of a list, from 0
RECURSIVE number_sum(_)
number_sum(xs) ==
    IF xs = <<>> THEN Number(0)
    ELSE number_add(number_sum(SubSeq(xs, 1, Len(xs) - 1)), xs[Len(xs)])

LossKeys == {"loss_generator", "loss_discriminator"}
LossValues == {1, 3}
SeqsUpTo(S, n) == UNION {[1..k -> S] : k \in 0..n}

\* CriterionAggregatorCallback.__init__: keeps the loss keys it is given
CriterionAggregatorCallback_init(prefix, loss_keys, loss_aggregate_fn) ==
    [prefix |-> prefix, loss_keys |-> loss_keys, loss_aggregate_fn |-> loss_aggregate_fn]

mean_weights_by_len(weights) ==
    [i \in DOMAIN weights |-> number_div(weights[i], Number(Len(weights)))]

\* [w / sum(weights) for w in weights]
mean_weights(weights) ==
    [i \in DOMAIN weights |-> number_div(weights[i], number_sum(weights))]

\* assert self.loss_keys is not None
assert_loss_keys(loss_keys) == loss_keys.kind # "None"

assert_weights_given(weights, loss_keys) == weights.kind # "None"

\* assert weights is not None and len(weights) == len(self.loss_keys)
assert_weights(weights, loss_keys) ==
    weights.kind # "None" /\ Len(weights.items) = Len(loss_keys.keys)

\* WeightedCriterionAggregatorCallback.__init__
WeightedCriterionAggregatorCallback_init ==
    /\ agg_pc = "new"
    /\ LET parent == CriterionAggregatorCallback_init(
                        agg_args.prefix, agg_args.loss_keys, "sum")
           weights == agg_args.weights
       IN  IF ~assert_loss_keys(parent.loss_keys)
           THEN /\ raised' = "AssertionError"
                /\ agg_pc' = "failed"
                /\ UNCHANGED agg_self
           ELSE IF ~assert_weights(weights, parent.loss_keys)
           THEN /\ raised' = "AssertionError"
                /\ agg_pc' = "failed"
                /\ UNCHANGED agg_self
           ELSE IF agg_args.loss_aggregate_fn = "mean"
           THEN IF weights.items # <<>> /\ number_sum(weights.items).num = 0
                THEN /\ raised' = "ZeroDivisionError"
                     /\ agg_pc' = "failed"
                     /\ UNCHANGED agg_self
                ELSE /\ agg_self' = [prefix |-> parent.prefix,
                                     loss_keys |-> parent.loss_keys.keys,
                                     weights |-> mean_weights(weights.items)]
                     /\ agg_pc' = "constructed"
                     /\ raised' = ""
           ELSE /\ agg_self' = [prefix |-> parent.prefix,
                                loss_keys |-> parent.loss_keys.keys,
                                weights |-> weights.items]
                /\ agg_pc' = "constructed"
                /\ raised' = ""
    /\ UNCHANGED <<agg_args, agg_loss, agg_losses>>
    /\ UNCHANGED exceptAgg

\* the list comprehension of _preprocess_loss
preprocess(self, loss) ==
    [i \in DOMAIN self.loss_keys |->
        number_mul(Number(loss[self.loss_keys[i]]), self.weights[i])]

\* WeightedCriterionAggregatorCallback._preprocess_loss
WeightedCriterionAggregatorCallback_preprocess_loss ==
    /\ agg_pc = "constructed"
    /\ \E loss \in UNION {[K -> LossValues] : K \in SUBSET LossKeys} :
          /\ agg_loss' = loss
          /\ IF \E i \in DOMAIN agg_self.loss_keys :
                    agg_self.loss_keys[i] \notin DOMAIN loss
             THEN /\ raised' = "KeyError"
                  /\ agg_losses' = <<>>
             ELSE /\ raised' = ""
                  /\ agg_losses' = preprocess(agg_self, loss)
    /\ UNCHANGED <<agg_args, agg_pc, agg_self>>
    /\ UNCHANGED exceptAgg

AggregatorArguments ==
    [prefix : {"loss"},
     loss_keys : {KeysNone} \cup {KeysList(ks) : ks \in SeqsUpTo(LossKeys, MaxLossKeys)},
     loss_aggregate_fn : {"mean", "sum"},
     weights : {PyNone} \cup
               {PyList([i \in DOMAIN ws |-> Number(ws[i])]) :
                   ws \in SeqsUpTo((-1)..MaxLossWeight, MaxLossKeys)}]

InitAgg ==
    /\ agg_args \in AggregatorArguments
    /\ agg_pc = "new"
    /\ agg_self = <<>>
    /\ agg_loss = <<>>
    /\ agg_losses = <<>>
    /\ raised = ""
    /\ IdleExceptAgg

NextAgg ==
    \/ WeightedCriterionAggregatorCallback_init
    \/ WeightedCriterionAggregatorCallback_preprocess_loss

SpecAgg == InitAgg /\ [][NextAgg]_vars

(***************************************************************************)
(* Claims about the weighted aggregator.                                   *)
(***************************************************************************)
GivenWeight(i) == agg_args.weights.items[i].num

RECURSIVE GivenWeightSum(_)
GivenWeightSum(n) == IF n = 0 THEN 0 ELSE GivenWeightSum(n - 1) + GivenWeight(n)

\* sum over i <= n of loss[loss_keys[i]] * weights[i], on the given weights
RECURSIVE GivenWeightedLoss(_)
GivenWeightedLoss(n) ==
    IF n = 0 THEN 0
    ELSE GivenWeightedLoss(n - 1) + agg_loss[agg_self.loss_keys[n]] * GivenWeight(n)

Preprocessed == agg_pc = "constructed" /\ raised = "" /\ agg_loss # <<>>

\* C6: the effective weights of a constructed aggregator are
\* weights[i] / sum(weights) for "mean", and then sum to 1 (for at least one
\* loss key), and the weights as given for "sum"; _preprocess_loss returns,
\* in loss_keys order, loss[key_i] * w_i, so that the sum of the returned
\* list is the weighted sum of the losses.
C6_WeightedAggregation ==
    agg_pc = "constructed" =>
        LET n == Len(agg_self.loss_keys)
            S == GivenWeightSum(n)
            mean == agg_args.loss_aggregate_fn = "mean"
            total == number_sum(agg_losses)
        IN  /\ Len(agg_self.weights) = n
            /\ \A i \in 1..n :
                  IF mean
                  THEN /\ agg_self.weights[i].den # 0
                       /\ agg_self.weights[i].num * S
                             = agg_self.weights[i].den * GivenWeight(i)
                  ELSE agg_self.weights[i] = agg_args.weights.items[i]
            /\ (mean /\ n > 0) =>
                  LET one == number_sum(agg_self.weights)
                  IN  one.den # 0 /\ one.num = one.den
            /\ Preprocessed =>
                  /\ Len(agg_losses) = n
                  /\ \A i \in 1..n :
                        /\ agg_losses[i].den # 0
                        /\ agg_losses[i].num * agg_self.weights[i].den
                             = agg_losses[i].den * agg_loss[agg_self.loss_keys[i]]
                                 * agg_self.weights[i].num
                  /\ total.den # 0
                  /\ IF mean
                     THEN total.num * S = total.den * GivenWeightedLoss(n)
                     ELSE total.num = total.den * GivenWeightedLoss(n)

\* two different losses were weighted with two different weights and averaged
C6_Witness ==
    /\ Preprocessed
    /\ agg_args.loss_aggregate_fn = "mean"
    /\ Len(agg_self.loss_keys) = 2
    /\ agg_self.loss_keys[1] # agg_self.loss_keys[2]
    /\ GivenWeight(1) = 1 /\ GivenWeight(2) = 2
    /\ agg_loss[agg_self.loss_keys[1]] # agg_loss[agg_self.loss_keys[2]]
    /\ Len(agg_losses) = 2

PreconditionOfAggregator ==
    /\ agg_args.loss_keys.kind # "None"
    /\ agg_args.weights.kind # "None"
    /\ Len(agg_args.weights.items) = Len(agg_args.loss_keys.keys)

\* C7: the constructor fails with an assertion unless loss_keys is given
\* and weights is given with len(weights) = len(loss_keys); a constructed
\* instance has exactly one weight per loss key.
C7_ConstructorAssertions ==
    /\ agg_pc = "constructed" =>
          /\ PreconditionOfAggregator
          /\ Len(agg_self.weights) = Len(agg_self.loss_keys)
          /\ agg_self.loss_keys = agg_args.loss_keys.keys
    /\ (agg_pc \in {"constructed", "failed"} /\ ~PreconditionOfAggregator) =>
          agg_pc = "failed" /\ raised = "AssertionError"

\* the constructor was given two loss keys and one weight, and failed
C7_Witness ==
    /\ agg_pc = "failed"
    /\ raised = "AssertionError"
    /\ agg_args.loss_keys.kind = "list"
    /\ agg_args.weights.kind = "list"
    /\ Len(agg_args.loss_keys.keys) = 2
    /\ Len(agg_args.weights.items) = 1

(***************************************************************************)
(* VisualizationCallback.__init__, in examples/autoencoders,               *)
(* examples/mnist_gans and examples/mnist_advanced_gans.                   *)
(*                                                                         *)
(* An argument is a Python value with its type: None, a str, an int, a     *)
(* float (num / den), a list or a tuple of such values.                    *)
(***************************************************************************)
MaxKeys == 2

PyStr(s) == [kind |-> "str", key |-> s]
PyInt(n) == [kind |-> "int", value |-> n]
PyFloat(n, d) == [kind |-> "float", num |-> n, den |-> d]
PyTuple(xs) == [kind |-> "tuple", keys |-> xs]

Raise(exception) == [raised |-> exception]
Return(value) == [raised |-> "", value |-> value]

normalize_keys_no_list(keys) ==
    IF keys.kind = "None" THEN Return(<<>>)
    ELSE IF keys.kind = "str" THEN Return(<<keys>>)
    ELSE Raise("ValueError")

\* the if / elif chain that sets self.input_keys, and again self.output_keys
normalize_keys(keys) ==
    IF keys.kind = "None" THEN Return(<<>>)
    ELSE IF keys.kind = "str" THEN Return(<<keys>>)
    ELSE IF keys.kind \in {"tuple", "list"}
    THEN IF \A i \in DOMAIN keys.keys : keys.keys[i].kind = "str"
         THEN Return(keys.keys)
         ELSE Raise("AssertionError")
    ELSE Raise("ValueError")

\* int(batch_frequency): an int as it is, a float truncated towards zero
int_(x) ==
    IF x.kind = "int" THEN x.value
    ELSE IF x.num >= 0 THEN x.num \div x.den ELSE -((-x.num) \div x.den)

\* str.lower on the strings of the model
lower(s) ==
    CASE s = "DEFAULT" -> "default"
      [] s = "None" -> "none"
      [] OTHER -> s

\* the selection of self.denorm in examples/autoencoders
VisualizationCallback_denorm(denorm) ==
    IF denorm = PyStr("default") THEN Return("x / 2 + .5")
    ELSE IF denorm.kind = "None" THEN Return("x")
    ELSE Raise("ValueError")

\* the selection of self.denorm in examples/mnist_gans: denorm.lower() is
\* evaluated first, and only a str has that method
Gans_VisualizationCallback_denorm(denorm) ==
    IF denorm.kind # "str" THEN Raise("AttributeError")
    ELSE IF lower(denorm.key) = "default" THEN Return("x / 2 + .5")
    ELSE IF denorm.kind = "None" \/ lower(denorm.key) = "none" THEN Return("x")
    ELSE Raise("ValueError")

\* the selection of self.denorm in examples/mnist_advanced_gans
Advanced_VisualizationCallback_denorm(denorm) ==
    IF denorm.kind # "str" THEN Raise("AttributeError")
    ELSE IF lower(denorm.key) = "default" THEN Return("x / 2 + .5")
    ELSE IF denorm.kind = "None" \/ lower(denorm.key) = "none" THEN Return("x")
    ELSE Raise("ValueError")

\* the two lambdas a constructor can store in self.denorm
denorm_call(denorm, x) ==
    IF denorm = "x / 2 + .5"
    THEN number_add(number_div(Number(x), Number(2)), [num |-> 5, den |-> 10])
    ELSE Number(x)

batch_frequency_positive(batch_frequency) == batch_frequency > 0

\* the statements of __init__ that the three classes share, in their order,
\* with the outcome of the selection of self.denorm
VisualizationCallback_construct(args, denorm) ==
    LET input_keys == normalize_keys(args.input_keys)
        output_keys == normalize_keys(args.output_keys)
    IN  IF input_keys.raised # "" THEN Raise(input_keys.raised)
        ELSE IF output_keys.raised # "" THEN Raise(output_keys.raised)
        ELSE IF Len(input_keys.value) + Len(output_keys.value) = 0
        THEN Raise("ValueError")
        ELSE IF ~batch_frequency_positive(int_(args.batch_frequency))
        THEN Raise("AssertionError")
        ELSE IF denorm.raised # "" THEN Raise(denorm.raised)
        ELSE Return([input_keys |-> input_keys.value,
                     output_keys |-> output_keys.value,
                     batch_frequency |-> int_(args.batch_frequency),
                     denorm |-> denorm.value,
                     loader_batch_count |-> 0,
                     loader_visualized_in_current_epoch |-> FALSE])

VisualizationCallback_outcome(outcome) ==
    /\ IF outcome.raised = ""
       THEN /\ viz_self' = outcome.value
            /\ viz_pc' = "constructed"
       ELSE /\ UNCHANGED viz_self
            /\ viz_pc' = "failed"
    /\ raised' = outcome.raised
    /\ UNCHANGED viz_args
    /\ UNCHANGED exceptViz

\* VisualizationCallback.__init__, examples/autoencoders
VisualizationCallback_init ==
    /\ viz_pc = "new"
    /\ viz_args.module = "autoencoders"
    /\ VisualizationCallback_outcome(
          VisualizationCallback_construct(viz_args,
              VisualizationCallback_denorm(viz_args.denorm)))

\* VisualizationCallback.__init__, examples/mnist_gans
Gans_VisualizationCallback_init ==
    /\ viz_pc = "new"
    /\ viz_args.module = "mnist_gans"
    /\ VisualizationCallback_outcome(
          VisualizationCallback_construct(viz_args,
              Gans_VisualizationCallback_denorm(viz_args.denorm)))

\* VisualizationCallback.__init__, examples/mnist_advanced_gans
Advanced_VisualizationCallback_init ==
    /\ viz_pc = "new"
    /\ viz_args.module = "mnist_advanced_gans"
    /\ VisualizationCallback_outcome(
          VisualizationCallback_construct(viz_args,
              Advanced_VisualizationCallback_denorm(viz_args.denorm)))

KeyElements == {PyStr("image"), PyInt(0)}
KeysArguments ==
    {PyNone, PyStr("image"), PyInt(0)}
        \cup {KeysList(xs) : xs \in SeqsUpTo(KeyElements, MaxKeys)}
        \cup {PyTuple(xs) : xs \in SeqsUpTo(KeyElements, MaxKeys)}
BatchFrequencies ==
    {PyInt(n) : n \in (-1)..2} \cup {PyFloat(n, 2) : n \in {-1, 1, 3}}
Denorms ==
    {PyNone, PyInt(0)} \cup {PyStr(d) : d \in {"default", "DEFAULT", "none", "None", "minmax"}}

VisualizationArguments ==
    [module : {"autoencoders", "mnist_gans", "mnist_advanced_gans"},
     input_keys : KeysArguments,
     output_keys : KeysArguments,
     batch_frequency : BatchFrequencies,
     denorm : Denorms]

InitViz ==
    /\ viz_args \in VisualizationArguments
    /\ viz_pc = "new"
    /\ viz_self = <<>>
    /\ raised = ""
    /\ IdleExceptViz

NextViz ==
    \/ VisualizationCallback_init
    \/ Gans_VisualizationCallback_init
    \/ Advanced_VisualizationCallback_init

SpecViz == InitViz /\ [][NextViz]_vars

(***************************************************************************)
(* Claims about the constructor of VisualizationCallback.                  *)
(***************************************************************************)
IsListOfStrings(keys) ==
    /\ keys.kind \in {"list", "tuple"}
    /\ \A i \in DOMAIN keys.keys : keys.keys[i].kind = "str"

\* the key arguments the claim gives a result for, and that result
IsKeysArgument(keys) == keys.kind \in {"None", "str"} \/ IsListOfStrings(keys)

IsNormalized(result, keys) ==
    CASE keys.kind = "None" -> result = <<>>
      [] keys.kind = "str" -> result = <<keys>>
      [] OTHER ->
            /\ IsListOfStrings(keys)
            /\ Len(result) = Len(keys.keys)
            /\ \A i \in 1..Len(result) : result[i] = keys.keys[i]

IsEmptyKeys(keys) ==
    keys.kind = "None" \/ (keys.kind \in {"list", "tuple"} /\ keys.keys = <<>>)

IsOtherType(keys) == keys.kind \notin {"None", "str", "list", "tuple"}

\* the integer n with |n| <= |x| < |n| + 1 and the sign of x
IntegerValue(x) ==
    IF x.kind = "int" THEN x.value
    ELSE CHOOSE n \in (-3)..3 :
            IF x.num >= 0
            THEN n * x.den <= x.num /\ x.num < (n + 1) * x.den
            ELSE (n - 1) * x.den < x.num /\ x.num <= n * x.den

ConstructorRan == viz_pc \in {"constructed", "failed"}

\* the constructor got as far as the selection of self.denorm
ReachedDenorm ==
    /\ ConstructorRan
    /\ IsKeysArgument(viz_args.input_keys)
    /\ IsKeysArgument(viz_args.output_keys)
    /\ ~(IsEmptyKeys(viz_args.input_keys) /\ IsEmptyKeys(viz_args.output_keys))
    /\ IntegerValue(viz_args.batch_frequency) > 0

\* C8: the constructor turns each of input_keys and output_keys into a
\* list: None into the empty list, a string s into [s], a list or tuple of
\* strings into the list of the same strings in the same order; any other
\* type raises ValueError, two empty lists raise ValueError, and a
\* batch_frequency whose integer value is not > 0 is rejected.  A
\* constructed instance has at least one image key and batch_frequency >= 1.
C8_KeyNormalization ==
    /\ viz_pc = "constructed" =>
          /\ IsNormalized(viz_self.input_keys, viz_args.input_keys)
          /\ IsNormalized(viz_self.output_keys, viz_args.output_keys)
          /\ Len(viz_self.input_keys) + Len(viz_self.output_keys) >= 1
          /\ viz_self.batch_frequency = IntegerValue(viz_args.batch_frequency)
          /\ viz_self.batch_frequency >= 1
    /\ (ConstructorRan /\ IsOtherType(viz_args.input_keys)) =>
          viz_pc = "failed" /\ raised = "ValueError"
    /\ (ConstructorRan /\ IsKeysArgument(viz_args.input_keys)
            /\ IsOtherType(viz_args.output_keys)) =>
          viz_pc = "failed" /\ raised = "ValueError"
    /\ (ConstructorRan /\ IsEmptyKeys(viz_args.input_keys)
            /\ IsEmptyKeys(viz_args.output_keys)) =>
          viz_pc = "failed" /\ raised = "ValueError"
    /\ (ConstructorRan /\ IsKeysArgument(viz_args.input_keys)
            /\ IsKeysArgument(viz_args.output_keys)
            /\ ~(IsEmptyKeys(viz_args.input_keys) /\ IsEmptyKeys(viz_args.output_keys))
            /\ IntegerValue(viz_args.batch_frequency) <= 0) =>
          viz_pc = "failed" /\ raised = "AssertionError"
    /\ (ReachedDenorm /\ viz_args.denorm = PyStr("default")) =>
          viz_pc = "constructed"

\* an instance was constructed from a tuple of two strings, a single
\* string and a batch_frequency of 1.5
C8_Witness ==
    /\ viz_pc = "constructed"
    /\ viz_args.input_keys.kind = "tuple"
    /\ Len(viz_self.input_keys) = 2
    /\ viz_args.output_keys.kind = "str"
    /\ viz_self.output_keys = <<PyStr("image")>>
    /\ viz_args.batch_frequency = PyFloat(3, 2)
    /\ viz_self.batch_frequency = 1

\* what the claim calls an unknown value of denorm: a string that is none
\* of the names the classes know, in any case
IsUnknownDenorm(denorm) ==
    denorm.kind = "str" /\ lower(denorm.key) \notin {"default", "none"}

\* C9: in all three classes denorm = "default" selects x -> x / 2 + 0.5,
\* denorm = None selects the identity and the construction succeeds, an
\* unknown value raises ValueError, and no other exception type is raised
\* for a denorm argument.
C9_DenormSelection ==
    ReachedDenorm =>
        /\ viz_args.denorm = PyStr("default") =>
              /\ viz_pc = "constructed"
              /\ \A x \in TensorValues :
                    LET y == denorm_call(viz_self.denorm, x)
                    IN  y.den # 0 /\ 2 * y.num = (x + 1) * y.den
        /\ viz_args.denorm = PyNone =>
              /\ viz_pc = "constructed"
              /\ \A x \in TensorValues :
                    LET y == denorm_call(viz_self.denorm, x)
                    IN  y.den # 0 /\ y.num = x * y.den
        /\ IsUnknownDenorm(viz_args.denorm) =>
              viz_pc = "failed" /\ raised = "ValueError"
        /\ viz_args.denorm.kind \in {"None", "str"} =>
              raised \in {"", "ValueError"}

(***************************************************************************)
(* VisualizationCallback._get_tensorboard_logger, in the three modules.    *)
(*                                                                         *)
(* state.loggers holds the loggers of the run, each under its key; a       *)
(* TensorboardLogger keeps one SummaryWriter per loader in its loggers     *)
(* dictionary.                                                             *)
(***************************************************************************)
MaxLoggers == 2

TENSORBOARD_LOGGER_KEY == "tensorboard"
LoaderNames == {"train", "valid", "infer"}
OtherLogger(key) == [key |-> key, class |-> "Logger"]
TensorboardLogger(loaders) ==
    [key |-> TENSORBOARD_LOGGER_KEY, class |-> "TensorboardLogger",
     loggers |-> [l \in loaders |-> <<"SummaryWriter", l>>]]
Loggers ==
    {OtherLogger("console"), OtherLogger("verbose")}
        \cup {TensorboardLogger(ls) : ls \in SUBSET {"train", "valid"}}
StateLoggers ==
    {ls \in SeqsUpTo(Loggers, MaxLoggers) :
        \A i, j \in DOMAIN ls : i # j => ls[i].key # ls[j].key}

\* for logger in state.loggers: if isinstance(logger, TensorboardLogger):
\*     return logger.loggers[state.loader_name]
RECURSIVE first_tensorboard_logger(_, _)
first_tensorboard_logger(loggers, loader_name) ==
    IF loggers = <<>> THEN Raise("RuntimeError")
    ELSE IF Head(loggers).class = "TensorboardLogger"
    THEN IF loader_name \in DOMAIN Head(loggers).loggers
         THEN Return(Head(loggers).loggers[loader_name])
         ELSE Raise("KeyError")
    ELSE first_tensorboard_logger(Tail(loggers), loader_name)

\* tb_key in state.loggers, and state.loggers[tb_key]
has_key(loggers, key) == \E i \in DOMAIN loggers : loggers[i].key = key
at_key(loggers, key) == loggers[CHOOSE i \in DOMAIN loggers : loggers[i].key = key]

\* _get_tensorboard_logger of examples/mnist_gans
Gans_get_tensorboard_logger(loggers, loader_name) ==
    LET tb_key == TENSORBOARD_LOGGER_KEY
    IN  IF has_key(loggers, tb_key)
           /\ loader_name \in DOMAIN at_key(loggers, tb_key).loggers
        THEN Return(at_key(loggers, tb_key).loggers[loader_name])
        ELSE Raise("RuntimeError")

\* _get_tensorboard_logger of examples/mnist_advanced_gans
Advanced_get_tensorboard_logger(loggers, loader_name) ==
    LET tb_key == TENSORBOARD_LOGGER_KEY
    IN  IF has_key(loggers, tb_key)
           /\ loader_name \in DOMAIN at_key(loggers, tb_key).loggers
        THEN Return(at_key(loggers, tb_key).loggers[loader_name])
        ELSE Raise("RuntimeError")

get_tensorboard_logger_outcome(outcome) ==
    /\ IF outcome.raised = ""
       THEN tb_logger' = outcome.value /\ logger_pc' = "returned"
       ELSE UNCHANGED tb_logger /\ logger_pc' = "failed"
    /\ raised' = outcome.raised
    /\ UNCHANGED <<logger_module, state_loggers, state_loader_name>>
    /\ UNCHANGED exceptLogger

\* VisualizationCallback._get_tensorboard_logger, examples/autoencoders
VisualizationCallback_get_tensorboard_logger ==
    /\ logger_pc = "new"
    /\ logger_module = "autoencoders"
    /\ get_tensorboard_logger_outcome(
          first_tensorboard_logger(state_loggers, state_loader_name))

\* VisualizationCallback._get_tensorboard_logger, examples/mnist_gans
Gans_VisualizationCallback_get_tensorboard_logger ==
    /\ logger_pc = "new"
    /\ logger_module = "mnist_gans"
    /\ get_tensorboard_logger_outcome(
          Gans_get_tensorboard_logger(state_loggers, state_loader_name))

\* VisualizationCallback._get_tensorboard_logger, examples/mnist_advanced_gans
Advanced_VisualizationCallback_get_tensorboard_logger ==
    /\ logger_pc = "new"
    /\ logger_module = "mnist_advanced_gans"
    /\ get_tensorboard_logger_outcome(
          Advanced_get_tensorboard_logger(state_loggers, state_loader_name))

InitLogger ==
    /\ logger_module \in {"autoencoders", "mnist_gans", "mnist_advanced_gans"}
    /\ logger_pc = "new"
    /\ state_loggers \in StateLoggers
    /\ state_loader_name \in LoaderNames
    /\ tb_logger = <<>>
    /\ raised = ""
    /\ IdleExceptLogger

NextLogger ==
    \/ VisualizationCallback_get_tensorboard_logger
    \/ Gans_VisualizationCallback_get_tensorboard_logger
    \/ Advanced_VisualizationCallback_get_tensorboard_logger

SpecLogger == InitLogger /\ [][NextLogger]_vars

(***************************************************************************)
(* Claims about _get_tensorboard_logger.                                   *)
(***************************************************************************)
\* the writers registered for the current loader
RegisteredWriters ==
    {state_loggers[i].loggers[state_loader_name] :
        i \in {j \in DOMAIN state_loggers :
                  /\ state_loggers[j].class = "TensorboardLogger"
                  /\ state_loader_name \in DOMAIN state_loggers[j].loggers}}

\* C10: in all three classes _get_tensorboard_logger returns the
\* Tensorboard writer registered for state.loader_name when there is one,
\* and otherwise raises RuntimeError, whether state.loggers holds no
\* Tensorboard logger or one that has no writer for state.loader_name.
C10_TensorboardLogger ==
    logger_pc \in {"returned", "failed"} =>
        IF RegisteredWriters # {}
        THEN logger_pc = "returned" /\ raised = "" /\ tb_logger \in RegisteredWriters
        ELSE logger_pc = "failed" /\ raised = "RuntimeError"

(***************************************************************************)
(* PrepareBatchInputCallback and its descendants                           *)
(* (examples/mnist_advanced_gans): callbacks that add entries to           *)
(* state.input at the start of a batch.                                    *)
(*                                                                         *)
(* A tensor of this part is the record of its shape and of its entries in  *)
(* row-major order; the tensors are integer tensors.                       *)
(***************************************************************************)
MaxClasses == 2
MaxNoiseDim == 2
MaxNoiseRank == 2
MaxSeed == 1

Tensor(shape, data) == [shape |-> shape, data |-> data]

\* number of entries of a tensor of the given shape
RECURSIVE numel(_)
numel(shape) == IF shape = <<>> THEN 1 ELSE shape[1] * numel(Tail(shape))

\* torch.zeros(shape) and torch.ones(shape)
torch_zeros(shape) == Tensor(shape, [i \in 1..numel(shape) |-> 0])
torch_ones(shape) == Tensor(shape, [i \in 1..numel(shape) |-> 1])

\* torch.randn(shape): the entries drawn are a function of the state of the
\* random generator (seed); a negative dimension raises RuntimeError
torch_randn_raises(shape) == \E i \in DOMAIN shape : shape[i] < 0
torch_randn(shape, seed) ==
    Tensor(shape, [i \in 1..numel(shape) |-> ((i + seed) % 3) - 1])

\* tensor[from:to] along dimension 0
slice0(t, from, to) ==
    LET row == numel(Tail(t.shape))
    IN  Tensor(<<to - from>> \o Tail(t.shape),
               SubSeq(t.data, from * row + 1, to * row))

\* torch.cat((a, b), dim=0)
torch_cat(a, b) ==
    Tensor(<<a.shape[1] + b.shape[1]>> \o Tail(a.shape), a.data \o b.data)

\* torch.equal(a, b): same size and same entries
torch_equal(a, b) == a.shape = b.shape /\ a.data = b.data

\* a store that keeps only the entry stored
dict_setitem_only(d, key, value) == [k \in {key} |-> value]

\* state.input[key] = value
dict_setitem(d, key, value) ==
    [k \in DOMAIN d \cup {key} |-> IF k = key THEN value ELSE d[k]]

\* PrepareBatchInputCallback.get_batch_size: the exception it raises, or ""
get_batch_size_raises(self, input) ==
    IF self.data_key \notin DOMAIN input THEN "AssertionError"
    ELSE IF input[self.data_key].shape = <<>> THEN "IndexError"
    ELSE ""

\* PrepareBatchInputCallback.get_batch_size
get_batch_size(self, input) == input[self.data_key].shape[1]

(***************************************************************************)
(* AddBatchNoiseCallback                                                   *)
(***************************************************************************)
\* the entries of a list or a tuple
entries(x) == IF x.kind = "list" THEN x.items ELSE x.keys

noise_shape_reversed(noise_shape) ==
    IF noise_shape.kind \in {"tuple", "list"}
    THEN [i \in DOMAIN entries(noise_shape) |->
            entries(noise_shape)[Len(entries(noise_shape)) + 1 - i]]
    ELSE <<noise_shape.value>>

\* tuple(noise_shape) if isinstance(noise_shape, (tuple, list)) else (noise_shape,)
normalize_noise_shape(noise_shape) ==
    IF noise_shape.kind \in {"tuple", "list"}
    THEN entries(noise_shape)
    ELSE <<noise_shape.value>>

\* AddBatchNoiseCallback.__init__
AddBatchNoiseCallback_init(noise_shape, data_key, injected_noise_key) ==
    [class |-> "AddBatchNoiseCallback",
     data_key |-> data_key,
     noise_shape |-> normalize_noise_shape(noise_shape),
     injected_noise_key |-> injected_noise_key]

\* AddBatchNoiseCallback.on_batch_start, for one state of the random generator
AddBatchNoiseCallback_call(self, input, seed) ==
    IF get_batch_size_raises(self, input) # ""
    THEN Raise(get_batch_size_raises(self, input))
    ELSE IF self.injected_noise_key \in DOMAIN input
    THEN Raise("AssertionError")
    ELSE LET batch_size == get_batch_size(self, input)
             z_shape == <<batch_size>> \o self.noise_shape
         IN  IF torch_randn_raises(z_shape)
             THEN Raise("RuntimeError")
             ELSE Return(dict_setitem(input, self.injected_noise_key,
                                      torch_randn(z_shape, seed)))

(***************************************************************************)
(* AddRealFakeTargetsCallback                                              *)
(***************************************************************************)
\* AddRealFakeTargetsCallback.__init__
AddRealFakeTargetsCallback_init(data_key, real_targets_key, fake_targets_key, fake_targets_zero) ==
    [class |-> "AddRealFakeTargetsCallback",
     data_key |-> data_key,
     real_targets_key |-> real_targets_key,
     fake_targets_key |-> fake_targets_key,
     fake_targets_zero |-> fake_targets_zero]

\* AddRealFakeTargetsCallback.on_batch_start
AddRealFakeTargetsCallback_call(self, input) ==
    IF self.real_targets_key \in DOMAIN input THEN Raise("AssertionError")
    ELSE IF self.fake_targets_key \in DOMAIN input THEN Raise("AssertionError")
    ELSE IF get_batch_size_raises(self, input) # ""
    THEN Raise(get_batch_size_raises(self, input))
    ELSE LET batch_size == get_batch_size(self, input)
             ones == torch_ones(<<batch_size, 1>>)
             zeros == torch_zeros(<<batch_size, 1>>)
             fake_targets == IF self.fake_targets_zero THEN zeros ELSE ones
             real_targets == IF self.fake_targets_zero THEN ones ELSE zeros
         IN  Return(dict_setitem(
                 dict_setitem(input, self.real_targets_key, real_targets),
                 self.fake_targets_key, fake_targets))

(***************************************************************************)
(* OneHotTransformCallback                                                 *)
(***************************************************************************)
\* OneHotTransformCallback.__init__
OneHotTransformCallback_init(n_classes, data_key, target_key, one_hot_target_key) ==
    [class |-> "OneHotTransformCallback",
     data_key |-> data_key,
     n_classes |-> n_classes,
     target_key |-> target_key,
     one_hot_target_key |-> one_hot_target_key]

\* the pairs (row, column) that the index
\* [torch.arange(batch_size), targets] selects: the two index tensors are
\* broadcast together (rows and columns count from 0)
index_broadcasts(batch_size, targets) ==
    \/ batch_size = Len(targets.data)
    \/ batch_size = 1
    \/ Len(targets.data) = 1

index_pairs(batch_size, targets) ==
    LET L == Len(targets.data)
        n == IF batch_size = L THEN L ELSE IF batch_size = 1 THEN L ELSE batch_size
    IN  {<<IF batch_size = 1 THEN 0 ELSE i - 1,
           IF L = 1 THEN targets.data[1] ELSE targets.data[i]>> : i \in 1..n}

\* a column index is valid from -n_classes to n_classes - 1, a negative one
\* counts from the end
column_in_range(c, n_classes) == -n_classes <= c /\ c < n_classes
column(c, n_classes) == IF c < 0 THEN c + n_classes ELSE c

one_hot_shifted(batch_size, n_classes, targets) ==
    Tensor(<<batch_size, n_classes>>,
           [k \in 1..(batch_size * n_classes) |->
               IF \E p \in index_pairs(batch_size, targets) :
                     /\ p[1] = (k - 1) \div n_classes
                     /\ column(p[2], n_classes) = (k % n_classes)
               THEN 1 ELSE 0])

\* targets_one_hot = torch.zeros((batch_size, n_classes));
\* targets_one_hot[torch.arange(batch_size), targets] = 1
one_hot(batch_size, n_classes, targets) ==
    Tensor(<<batch_size, n_classes>>,
           [k \in 1..(batch_size * n_classes) |->
               IF \E p \in index_pairs(batch_size, targets) :
                     /\ p[1] = (k - 1) \div n_classes
                     /\ column(p[2], n_classes) = (k - 1) % n_classes
               THEN 1 ELSE 0])

\* OneHotTransformCallback.on_batch_start
OneHotTransformCallback_call(self, input) ==
    IF get_batch_size_raises(self, input) # ""
    THEN Raise(get_batch_size_raises(self, input))
    ELSE IF self.target_key \notin DOMAIN input THEN Raise("AssertionError")
    ELSE IF self.one_hot_target_key \in DOMAIN input THEN Raise("AssertionError")
    ELSE LET batch_size == get_batch_size(self, input)
             targets == input[self.target_key]
         IN  IF Len(targets.shape) > 1 THEN Raise("NotImplementedError")
             ELSE IF ~index_broadcasts(batch_size, targets)
             THEN Raise("IndexError")
             ELSE IF \E p \in index_pairs(batch_size, targets) :
                        ~column_in_range(p[2], self.n_classes)
             THEN Raise("IndexError")
             ELSE Return(dict_setitem(input, self.one_hot_target_key,
                             one_hot(batch_size, self.n_classes, targets)))

(***************************************************************************)
(* SameClassFeaturesRepeatCallback                                         *)
(***************************************************************************)
\* SameClassFeaturesRepeatCallback.__init__
SameClassFeaturesRepeatCallback_init(data_key, same_class_data_key, targets_key) ==
    [class |-> "SameClassFeaturesRepeatCallback",
     data_key |-> data_key,
     same_class_data_key |-> same_class_data_key,
     targets_key |-> targets_key]

\* the sanity check of the targets: the exception it raises, or ""
targets_check_raises(self, input, batch_size) ==
    IF self.targets_key.kind = "None" THEN ""
    ELSE IF self.targets_key.key \notin DOMAIN input THEN "AssertionError"
    ELSE LET target == input[self.targets_key.key]
         IN  IF target.shape = <<>> THEN "IndexError"
             ELSE IF target.shape[1] # batch_size THEN "AssertionError"
             ELSE IF batch_size % 2 # 0 THEN "AssertionError"
             ELSE IF ~torch_equal(slice0(target, 0, batch_size \div 2),
                                  slice0(target, batch_size \div 2, batch_size))
             THEN "AssertionError"
             ELSE ""

\* SameClassFeaturesRepeatCallback.on_batch_start
SameClassFeaturesRepeatCallback_call(self, input) ==
    IF get_batch_size_raises(self, input) # ""
    THEN Raise(get_batch_size_raises(self, input))
    ELSE LET batch_size == get_batch_size(self, input)
             data == input[self.data_key]
         IN  IF targets_check_raises(self, input, batch_size) # ""
             THEN Raise(targets_check_raises(self, input, batch_size))
             ELSE IF self.same_class_data_key \in DOMAIN input
             THEN Raise("AssertionError")
             ELSE Return(dict_setitem(input, self.same_class_data_key,
                             torch_cat(slice0(data, 0, batch_size \div 2),
                                       slice0(data, batch_size \div 2, batch_size))))

(***************************************************************************)
(* The runs of the batch-preparation callbacks: a callback is constructed  *)
(* and on_batch_start is called on a state.input, possibly again on the    *)
(* same dictionary.                                                        *)
(***************************************************************************)
DataValues == {3, 4}
DataTensors ==
    {Tensor(<<Len(d)>>, d) : d \in SeqsUpTo(DataValues, MaxBatchSize)}
        \cup {Tensor(<<>>, <<3>>), Tensor(<<2, 2>>, <<3, 4, 4, 3>>)}

\* targets: class indices (also below 0 and beyond the last class), column
\* vectors of class 0, and one scalar
TargetValues == (-1)..MaxClasses
TargetTensors ==
    {Tensor(<<Len(d)>>, d) : d \in SeqsUpTo(TargetValues, MaxBatchSize)}
        \cup {Tensor(<<B, 1>>, [i \in 1..B |-> 0]) : B \in 0..MaxBatchSize}
        \cup {Tensor(<<>>, <<0>>)}

\* an entry that is in state.input before the callback runs
ExistingTensors == {Tensor(<<1>>, <<9>>)}

KeyTensors(key) ==
    IF key = "data" THEN DataTensors
    ELSE IF key \in {"target", "class_targets"} THEN TargetTensors
    ELSE ExistingTensors

RECURSIVE InputDictionaries(_)
InputDictionaries(Keys) ==
    IF Keys = {} THEN {<<>>}
    ELSE LET key == CHOOSE k \in Keys : TRUE
             rest == InputDictionaries(Keys \ {key})
         IN  rest \cup {d @@ (key :> t) : d \in rest, t \in KeyTensors(key)}

NoiseDims == (-1)..MaxNoiseDim
NoiseShapes ==
    {PyInt(n) : n \in NoiseDims}
        \cup {PyList(xs) : xs \in SeqsUpTo(NoiseDims, MaxNoiseRank)}
        \cup {PyTuple(xs) : xs \in SeqsUpTo(NoiseDims, MaxNoiseRank)}

on_batch_start_outcome(outcome) ==
    /\ state_input' = IF outcome.raised = "" THEN outcome.value ELSE state_input
    /\ raised' = outcome.raised
    /\ prep_calls' = prep_calls + 1
    /\ UNCHANGED <<prep_args, prep_self>>
    /\ UNCHANGED exceptPrep

\* AddBatchNoiseCallback.on_batch_start
AddBatchNoiseCallback_on_batch_start ==
    /\ prep_self.class = "AddBatchNoiseCallback"
    /\ prep_calls < MaxCalls
    /\ \E seed \in 0..MaxSeed :
          on_batch_start_outcome(
              AddBatchNoiseCallback_call(prep_self, state_input, seed))

\* AddRealFakeTargetsCallback.on_batch_start
AddRealFakeTargetsCallback_on_batch_start ==
    /\ prep_self.class = "AddRealFakeTargetsCallback"
    /\ prep_calls < MaxCalls
    /\ on_batch_start_outcome(
          AddRealFakeTargetsCallback_call(prep_self, state_input))

\* OneHotTransformCallback.on_batch_start
OneHotTransformCallback_on_batch_start ==
    /\ prep_self.class = "OneHotTransformCallback"
    /\ prep_calls < MaxCalls
    /\ on_batch_start_outcome(
          OneHotTransformCallback_call(prep_self, state_input))

\* SameClassFeaturesRepeatCallback.on_batch_start
SameClassFeaturesRepeatCallback_on_batch_start ==
    /\ prep_self.class = "SameClassFeaturesRepeatCallback"
    /\ prep_calls < MaxCalls
    /\ on_batch_start_outcome(
          SameClassFeaturesRepeatCallback_call(prep_self, state_input))

InitAddBatchNoise ==
    /\ prep_args \in [noise_shape : NoiseShapes, data_key : {"data"},
                      injected_noise_key : {"noise", "data"}]
    /\ prep_self = AddBatchNoiseCallback_init(prep_args.noise_shape,
                       prep_args.data_key, prep_args.injected_noise_key)
    /\ state_input \in InputDictionaries({"data", "noise", "other"})

InitAddRealFakeTargets ==
    /\ prep_args \in [data_key : {"data"}, real_targets_key : {"real_targets"},
                      fake_targets_key : {"fake_targets", "real_targets", "data"},
                      fake_targets_zero : BOOLEAN]
    /\ prep_self = AddRealFakeTargetsCallback_init(prep_args.data_key,
                       prep_args.real_targets_key, prep_args.fake_targets_key,
                       prep_args.fake_targets_zero)
    /\ state_input \in
          InputDictionaries({"data", "real_targets", "fake_targets", "other"})

InitOneHotTransform ==
    /\ prep_args \in [n_classes : 1..MaxClasses, data_key : {"data"},
                      target_key : {"target"},
                      one_hot_target_key : {"one_hot_target", "target"}]
    /\ prep_self = OneHotTransformCallback_init(prep_args.n_classes,
                       prep_args.data_key, prep_args.target_key,
                       prep_args.one_hot_target_key)
    /\ state_input \in
          InputDictionaries({"data", "target", "one_hot_target", "other"})

InitSameClassFeaturesRepeat ==
    /\ prep_args \in [data_key : {"data"},
                      same_class_data_key : {"same_class_data", "data"},
                      targets_key : {PyNone, PyStr("class_targets")}]
    /\ prep_self = SameClassFeaturesRepeatCallback_init(prep_args.data_key,
                       prep_args.same_class_data_key, prep_args.targets_key)
    /\ state_input \in
          InputDictionaries({"data", "class_targets", "same_class_data", "other"})

InitPrep ==
    /\ \/ InitAddBatchNoise
       \/ InitAddRealFakeTargets
       \/ InitOneHotTransform
       \/ InitSameClassFeaturesRepeat
    /\ prep_calls = 0
    /\ raised = ""
    /\ IdleExceptPrep

NextPrep ==
    \/ AddBatchNoiseCallback_on_batch_start
    \/ AddRealFakeTargetsCallback_on_batch_start
    \/ OneHotTransformCallback_on_batch_start
    \/ SameClassFeaturesRepeatCallback_on_batch_start

SpecPrep == InitPrep /\ [][NextPrep]_vars

(***************************************************************************)
(* Claims about the batch-preparation callbacks.                           *)
(***************************************************************************)
\* the assertions of OneHotTransformCallback.on_batch_start hold on input
OneHotAssertionsHold(self, input) ==
    /\ self.data_key \in DOMAIN input
    /\ input[self.data_key].shape # <<>>
    /\ self.target_key \in DOMAIN input
    /\ self.one_hot_target_key \notin DOMAIN input

\* the targets are a 1-dimensional batch of class indices, as long as the
\* data batch
IsClassIndexBatch(self, input) ==
    /\ input[self.target_key].shape = <<input[self.data_key].shape[1]>>
    /\ \A i \in DOMAIN input[self.target_key].data :
          input[self.target_key].data[i] \in 0..(self.n_classes - 1)

\* matrix is the B x n_classes one-hot matrix of the targets
IsOneHotMatrix(matrix, targets, n_classes) ==
    LET B == Len(targets.data)
    IN  /\ matrix.shape = <<B, n_classes>>
        /\ Len(matrix.data) = B * n_classes
        /\ \A i \in 1..B : \A c \in 0..(n_classes - 1) :
              matrix.data[(i - 1) * n_classes + c + 1]
                  = IF c = targets.data[i] THEN 1 ELSE 0

\* C11: for a 1-dimensional target batch of length B (the batch size) whose
\* entries are class indices in 0..n_classes-1, on_batch_start of
\* OneHotTransformCallback stores under one_hot_target_key the
\* B x n_classes matrix whose row i has its only 1 at column targets[i] and
\* 0 elsewhere; with a target tensor of more than one dimension the call
\* raises (NotImplementedError when the assertions before the test hold)
\* and adds no key.
C11_OneHotEncoding ==
    [][ prep_self.class = "OneHotTransformCallback" =>
          /\ (OneHotAssertionsHold(prep_self, state_input)
                /\ IsClassIndexBatch(prep_self, state_input))
             => /\ raised' = ""
                /\ prep_self.one_hot_target_key \in DOMAIN state_input'
                /\ IsOneHotMatrix(state_input'[prep_self.one_hot_target_key],
                                  state_input[prep_self.target_key],
                                  prep_self.n_classes)
          /\ (/\ prep_self.target_key \in DOMAIN state_input
              /\ Len(state_input[prep_self.target_key].shape) > 1)
             => /\ raised' # ""
                /\ DOMAIN state_input' = DOMAIN state_input
                /\ OneHotAssertionsHold(prep_self, state_input)
                      => raised' = "NotImplementedError" ]_vars

\* a batch of two targets of different classes was encoded
C11_Witness ==
    /\ prep_self.class = "OneHotTransformCallback"
    /\ prep_calls = 1 /\ raised = ""
    /\ prep_self.n_classes = 2
    /\ prep_self.one_hot_target_key \in DOMAIN state_input
    /\ state_input[prep_self.target_key].data = <<1, 0>>
    /\ state_input[prep_self.one_hot_target_key].data = <<0, 1, 1, 0>>

\* shape is the noise_shape argument as a tuple: (n,) for an int n, the
\* same entries for a list or a tuple
IsNoiseShapeOf(shape, noise_shape) ==
    CASE noise_shape.kind = "int" -> shape = <<noise_shape.value>>
      [] noise_shape.kind = "list" -> shape = noise_shape.items
      [] noise_shape.kind = "tuple" -> shape = noise_shape.keys

\* what on_batch_start of AddBatchNoiseCallback needs of state.input and of
\* the noise shape: the data with a dimension 0, no entry under
\* injected_noise_key, no negative dimension
NoiseCanBeAdded(self, input) ==
    /\ self.data_key \in DOMAIN input
    /\ input[self.data_key].shape # <<>>
    /\ self.injected_noise_key \notin DOMAIN input
    /\ \A i \in DOMAIN self.noise_shape : self.noise_shape[i] >= 0

\* C12: AddBatchNoiseCallback keeps noise_shape as a tuple, (n,) for an int
\* n and the same entries for a list or a tuple; on_batch_start then stores
\* under injected_noise_key a tensor of shape (B,) + noise_shape, B being
\* the size of dimension 0 of state.input[data_key]; without data_key in
\* state.input the call fails its assertion.
C12_BatchNoise ==
    [][ prep_self.class = "AddBatchNoiseCallback" =>
          /\ IsNoiseShapeOf(prep_self.noise_shape, prep_args.noise_shape)
          /\ NoiseCanBeAdded(prep_self, state_input)
             => /\ raised' = ""
                /\ prep_self.injected_noise_key \in DOMAIN state_input'
                /\ LET noise == state_input'[prep_self.injected_noise_key]
                       B == state_input[prep_self.data_key].shape[1]
                   IN  /\ noise.shape = <<B>> \o prep_self.noise_shape
                       /\ IsNoiseShapeOf(Tail(noise.shape), prep_args.noise_shape)
                       /\ Len(noise.data) = numel(noise.shape)
          /\ prep_self.data_key \notin DOMAIN state_input
             => raised' = "AssertionError" /\ state_input' = state_input ]_vars

\* noise of shape (2, 1, 2) was added for a batch of two and the
\* noise_shape [1, 2]
C12_Witness ==
    /\ prep_self.class = "AddBatchNoiseCallback"
    /\ prep_calls = 1 /\ raised = ""
    /\ prep_args.noise_shape = PyList(<<1, 2>>)
    /\ prep_self.injected_noise_key \in DOMAIN state_input
    /\ state_input[prep_self.data_key].shape = <<2>>
    /\ state_input[prep_self.injected_noise_key].shape = <<2, 1, 2>>

\* the keys under which a batch-preparation callback stores its output
OutputKeysOf(self) ==
    CASE self.class = "AddBatchNoiseCallback" -> {self.injected_noise_key}
      [] self.class = "AddRealFakeTargetsCallback" ->
            {self.real_targets_key, self.fake_targets_key}
      [] self.class = "OneHotTransformCallback" -> {self.one_hot_target_key}
      [] self.class = "SameClassFeaturesRepeatCallback" ->
            {self.same_class_data_key}

\* C13: on_batch_start of AddBatchNoiseCallback, AddRealFakeTargetsCallback,
\* OneHotTransformCallback and SameClassFeaturesRepeatCallback never
\* overwrites or removes an entry of state.input: a call that returns has
\* added the callback's own output keys, which were absent, and left every
\* other key with its value; a call that raises leaves state.input exactly
\* as it was; and a call with an output key already present raises.
C13_InputPreserved ==
    [][ /\ raised' = ""
           => /\ \A k \in DOMAIN state_input :
                    k \in DOMAIN state_input' /\ state_input'[k] = state_input[k]
              /\ DOMAIN state_input' \ DOMAIN state_input = OutputKeysOf(prep_self)
        /\ raised' # "" => state_input' = state_input
        /\ OutputKeysOf(prep_self) \cap DOMAIN state_input # {}
           => raised' # "" ]_vars

\* on_batch_start of AddRealFakeTargetsCallback was called twice on the same
\* dictionary: the first call added the targets of a batch of two next to
\* the entries that were there, the second call raised
C13_Witness ==
    /\ prep_self.class = "AddRealFakeTargetsCallback"
    /\ prep_calls = 2 /\ raised = "AssertionError"
    /\ DOMAIN state_input = {"data", "other", "real_targets", "fake_targets"}
    /\ state_input["data"].shape = <<2>>
    /\ state_input["other"] \in ExistingTensors
    /\ state_input["real_targets"] = torch_ones(<<2, 1>>)
    /\ state_input["fake_targets"] = torch_zeros(<<2, 1>>)

====
